---- MODULE Spec2Model ----
(***************************************************************************)
(* A model of bilibili_api/user.py: the User and ChannelSeries facades and *)
(* the account-scoped free functions, as one calling task that makes one   *)
(* call at a time.  A call runs from its entry to its first await in one   *)
(* step; every answer of the remote service is one more step, which runs   *)
(* the handler up to its next request, its return or its raise.  The one   *)
(* piece of state a User object keeps between calls, its self-info slot,   *)
(* is modelled with the tasks that may look it up on the same object.      *)
(*                                                                         *)
(* Python values: a str the code builds or inspects is a sequence (so ""   *)
(* is <<>>), a list is a sequence, a dict is a record, None is the record  *)
(* NoneValue; names of endpoints and of exceptions are plain strings.      *)
(***************************************************************************)
EXTENDS Integers, Sequences, FiniteSets, TLC

VARIABLES
    op,         \* name of the operation called last ("none" before any call)
    pc,         \* where that call is: "idle", an await label, or "done"
    cred,       \* the Credential the call was given
    args,       \* the call's arguments
    loc,        \* the call's local variables
    sent,       \* every request the call has issued, in order
    inflight,   \* the requests issued and not yet answered
    recv,       \* every answer the call has received, in order
    sleeps,     \* for every time.sleep of the call, a record of when it ran
    result,     \* how the call ended: returned value or raised exception
    chan,       \* the ChannelSeries object constructed last
    prev,       \* the get_videos call (object, arguments, request) before this one
    user,       \* the User object the caller holds for self-info lookups, or None
    lookups     \* for each task, its lookup on that object: position, log, outcome

vars == <<op, pc, cred, args, loc, sent, inflight, recv, sleeps, result, chan, prev,
          user, lookups>>

(***************************************************************************)
(* Bounds of the model.                                                    *)
(***************************************************************************)
MaxPages == 2       \* del_channel_series walks up to this many pages (and one more)
MaxItems == 3       \* largest channel count the probe of get_channel_list reports
MaxPageArg == 2     \* largest page number / page size argument tried
MaxCards == 2       \* most cards in a dynamics payload

NoneValue == [none |-> TRUE]
NoArgs == [noargs |-> TRUE]
NoLoc == [nolocals |-> TRUE]
NoResult == [kind |-> "none"]

Min(S) == CHOOSE x \in S : \A y \in S : x <= y

(***************************************************************************)
(* Credential (utils/Credential.py is not part of the sources: the three   *)
(* presence checks are taken from the specification, section 6).           *)
(***************************************************************************)
Credentials == [sessdata : BOOLEAN, bili_jct : BOOLEAN, dedeuserid : BOOLEAN]

\* Credential(): no token at all
EmptyCredential == [sessdata |-> FALSE, bili_jct |-> FALSE, dedeuserid |-> FALSE]

raise_for_no_sessdata(c) ==
    IF c.sessdata THEN "ok" ELSE "CredentialNoSessdataException"

raise_for_no_bili_jct(c) ==
    IF c.bili_jct THEN "ok" ELSE "CredentialNoBiliJctException"

raise_for_no_dedeuserid(c) ==
    IF c.dedeuserid THEN "ok" ELSE "CredentialNoDedeUserIDException"

\* one statement that precedes the request of an operation
Check(step, c, argsok) ==
    CASE step = "sessdata"   -> raise_for_no_sessdata(c)
      [] step = "bili_jct"   -> raise_for_no_bili_jct(c)
      [] step = "dedeuserid" -> raise_for_no_dedeuserid(c)
      [] step = "assert"     -> IF argsok THEN "ok" ELSE "AssertionError"

\* the statements run in order; the first that raises ends the call
RunChecks(pre, c, argsok) ==
    LET bad == {i \in 1..Len(pre) : Check(pre[i], c, argsok) # "ok"}
    IN  IF bad = {} THEN "ok" ELSE Check(pre[Min(bad)], c, argsok)

(***************************************************************************)
(* Requests and answers.                                                   *)
(***************************************************************************)
\* via: "request" (the gateway), "httpx" (httpx.get), "session" (get_session())
Request(via, method, api, payload, auth, c) ==
    [via |-> via, method |-> method, api |-> api, payload |-> payload,
     auth |-> auth, cred |-> IF auth THEN c ELSE EmptyCredential]

\* status codes of the remote service, as far as the callers tell them apart
Codes == {"nickname_rejected", "other_code"}

\* what a request can raise: the typed error with its code, or anything else
GatewayErrors ==
    {[ok |-> FALSE, exc |-> "ResponseCodeException", code |-> c] : c \in Codes}
    \cup {[ok |-> FALSE, exc |-> "NetworkError", code |-> "none"]}

Ok(data) == [ok |-> TRUE, data |-> data]

Raise(exc) == [kind |-> "raise", exc |-> exc]
Return(val) == [kind |-> "return", val |-> val]

(***************************************************************************)
(* str(x) of an int and ",".join(...) of a list of strs.                   *)
(***************************************************************************)
Digits == <<"0", "1", "2", "3", "4", "5", "6", "7", "8", "9">>

RECURSIVE str(_)
str(n) ==
    IF n < 10 THEN <<Digits[n + 1]>>
    ELSE str(n \div 10) \o <<Digits[(n % 10) + 1]>>

RECURSIVE join(_, _)
join(sep, xs) ==
    IF xs = <<>> THEN <<>>
    ELSE IF Len(xs) = 1 THEN xs[1]
    ELSE xs[1] \o sep \o join(sep, Tail(xs))

\* ",".join(map(lambda x: str(x), aids))
JoinAids(aids) == join(<<",">>, [i \in 1..Len(aids) |-> str(aids[i])])

(***************************************************************************)
(* json.loads over a text given as its sequence of tokens: P a punctuation *)
(* mark, S a string literal, N a number.  An object becomes a function of  *)
(* its keys, an array a sequence (so {} and [] are both <<>>).             *)
(***************************************************************************)
P(x) == [p |-> x]
S(x) == [s |-> x]
N(x) == [n |-> x]

JSONFail == [ok |-> FALSE]
Parsed(v, rest) == [ok |-> TRUE, val |-> v, rest |-> rest]

RECURSIVE ParseValue(_), ParseMembers(_, _), ParseElements(_, _)
ParseValue(ts) ==
    IF ts = <<>> THEN JSONFail
    ELSE LET t == Head(ts)
             r == Tail(ts)
         IN  CASE "n" \in DOMAIN t -> Parsed(t.n, r)
               [] "s" \in DOMAIN t -> Parsed(t.s, r)
               [] t = P("{") ->
                    IF r # <<>> /\ Head(r) = P("}") THEN Parsed(<<>>, Tail(r))
                    ELSE ParseMembers(r, <<>>)
               [] t = P("[") ->
                    IF r # <<>> /\ Head(r) = P("]") THEN Parsed(<<>>, Tail(r))
                    ELSE ParseElements(r, <<>>)
               [] OTHER -> JSONFail

\* the members of an object after its "{" (a repeated key keeps its last value)
ParseMembers(ts, d) ==
    IF Len(ts) < 3 \/ "s" \notin DOMAIN ts[1] \/ ts[2] # P(":") THEN JSONFail
    ELSE LET v == ParseValue(SubSeq(ts, 3, Len(ts)))
         IN  IF ~v.ok \/ v.rest = <<>> THEN JSONFail
             ELSE LET d2 == (ts[1].s :> v.val) @@ d
                  IN  CASE Head(v.rest) = P("}") -> Parsed(d2, Tail(v.rest))
                        [] Head(v.rest) = P(",") -> ParseMembers(Tail(v.rest), d2)
                        [] OTHER -> JSONFail

\* the elements of an array after its "["
ParseElements(ts, xs) ==
    LET v == ParseValue(ts)
    IN  IF ~v.ok \/ v.rest = <<>> THEN JSONFail
        ELSE LET xs2 == Append(xs, v.val)
             IN  CASE Head(v.rest) = P("]") -> Parsed(xs2, Tail(v.rest))
                   [] Head(v.rest) = P(",") -> ParseElements(Tail(v.rest), xs2)
                   [] OTHER -> JSONFail

\* json.loads(text): the value, or JSONDecodeError
json_loads(ts) ==
    LET v == ParseValue(ts)
    IN  IF v.ok /\ v.rest = <<>> THEN [ok |-> TRUE, val |-> v.val] ELSE JSONFail

(***************************************************************************)
(* The operations that make one request and return its payload.            *)
(*   pre: the statements before the request, in source order               *)
(***************************************************************************)
Op(name, pre, method, api, auth) ==
    [name |-> name, pre |-> pre, method |-> method, api |-> api, auth |-> auth]

name2uid == Op("name2uid", <<>>, "GET", "name_to_uid", FALSE)
get_user_info == Op("get_user_info", <<>>, "GET", "info", TRUE)
get_space_notice == Op("get_space_notice", <<>>, "GET", "space_notice", TRUE)
set_space_notice ==
    Op("set_space_notice", <<"sessdata", "bili_jct">>, "POST", "set_space_notice", TRUE)
get_relation_info == Op("get_relation_info", <<>>, "GET", "relation", TRUE)
get_up_stat == Op("get_up_stat", <<"bili_jct">>, "GET", "upstat", TRUE)
get_top_videos == Op("get_top_videos", <<>>, "GET", "user_top_videos", TRUE)
get_user_medal == Op("get_user_medal", <<"sessdata">>, "GET", "user_medal", TRUE)
get_live_info == Op("get_live_info", <<>>, "GET", "live", TRUE)
get_videos == Op("get_videos", <<>>, "GET", "video", TRUE)
get_audios == Op("get_audios", <<>>, "GET", "audio", TRUE)
get_album == Op("get_album", <<>>, "GET", "album", TRUE)
get_articles == Op("get_articles", <<>>, "GET", "article", TRUE)
get_article_list == Op("get_article_list", <<>>, "GET", "article_lists", TRUE)
get_subscribed_bangumi == Op("get_subscribed_bangumi", <<>>, "GET", "bangumi", TRUE)
get_followings == Op("get_followings", <<>>, "GET", "all_followings2", TRUE)
get_followers == Op("get_followers", <<>>, "GET", "followers", TRUE)
top_followers == Op("top_followers", <<>>, "GET", "top_followers", TRUE)
get_overview_stat == Op("get_overview_stat", <<>>, "GET", "overview", TRUE)
modify_relation == Op("modify_relation", <<"sessdata", "bili_jct">>, "POST", "modify", TRUE)
get_channel_videos_series ==
    Op("get_channel_videos_series", <<>>, "GET", "channel_video_series", TRUE)
get_channel_videos_season ==
    Op("get_channel_videos_season", <<>>, "GET", "channel_video_season", TRUE)
get_cheese == Op("get_cheese", <<>>, "GET", "pugv", FALSE)
get_reservation == Op("get_reservation", <<>>, "GET", "reservation", TRUE)
get_self_info == Op("get_self_info", <<"sessdata">>, "GET", "my_info", TRUE)
edit_self_info == Op("edit_self_info", <<"sessdata", "bili_jct">>, "POST", "edit_my_info", TRUE)
create_subscribe_group ==
    Op("create_subscribe_group", <<"sessdata", "bili_jct">>, "POST",
       "create_subscribe_group", TRUE)
delete_subscribe_group ==
    Op("delete_subscribe_group", <<"sessdata", "bili_jct">>, "POST",
       "del_subscribe_group", TRUE)
rename_subscribe_group ==
    Op("rename_subscribe_group", <<"sessdata", "bili_jct">>, "POST",
       "rename_subscribe_group", TRUE)
set_subscribe_group ==
    Op("set_subscribe_group", <<"sessdata", "bili_jct">>, "POST",
       "set_user_subscribe_group", TRUE)
get_self_history == Op("get_self_history", <<"sessdata">>, "GET", "history", TRUE)
get_self_coins == Op("get_self_coins", <<"sessdata", "dedeuserid">>, "GET", "get_coins", TRUE)
get_toview_list == Op("get_toview_list", <<"sessdata">>, "GET", "toview_list", TRUE)
clear_toview_list ==
    Op("clear_toview_list", <<"sessdata", "bili_jct">>, "POST", "toview_clear", TRUE)
delete_viewed_videos_from_toview ==
    Op("delete_viewed_videos_from_toview", <<"sessdata", "bili_jct">>, "POST",
       "toview_del", TRUE)
get_self_events == Op("get_self_events", <<>>, "GET", "events", TRUE)
get_self_notes_info ==
    Op("get_self_notes_info", <<"assert", "assert", "sessdata">>, "GET", "all_notes", TRUE)
get_self_public_notes_info ==
    Op("get_self_public_notes_info", <<"assert", "assert", "sessdata">>, "GET",
       "public_notes", TRUE)

UserSimpleOps ==
    {get_user_info, get_space_notice, set_space_notice, get_relation_info,
     get_up_stat, get_top_videos, get_user_medal, get_live_info, get_videos,
     get_audios, get_album, get_articles, get_article_list,
     get_subscribed_bangumi, get_followings, get_followers, top_followers,
     get_overview_stat, modify_relation, get_channel_videos_series,
     get_channel_videos_season, get_cheese, get_reservation}

FreeSimpleOps ==
    {name2uid, get_self_info, edit_self_info, create_subscribe_group,
     delete_subscribe_group, rename_subscribe_group, set_subscribe_group,
     get_self_history, get_self_coins, get_toview_list, clear_toview_list,
     delete_viewed_videos_from_toview, get_self_events}

NotesOps == {get_self_notes_info, get_self_public_notes_info}

SimpleOps == UserSimpleOps \cup FreeSimpleOps \cup NotesOps

\* the payloads of the one-request operations, as far as their code looks at them
SimplePayloads == {[money |-> 5], [data |-> 0]}

\* the tasks that may look up self info on one User object
Tasks == {1, 2}

\* a task that is not inside User.__get_self_info
NoLookup ==
    [pc |-> "idle", seen |-> NoneValue, sent |-> <<>>, recv |-> <<>>, result |-> NoResult]

Init ==
    /\ op = "none"
    /\ pc = "idle"
    /\ cred = EmptyCredential
    /\ args = NoArgs
    /\ loc = NoLoc
    /\ sent = <<>>
    /\ inflight = {}
    /\ recv = <<>>
    /\ sleeps = <<>>
    /\ result = NoResult
    /\ chan = NoneValue
    /\ prev = NoneValue
    /\ user = NoneValue
    /\ lookups = [t \in Tasks |-> NoLookup]

\* a call may start when no call is running; the operations that are not
\* methods of the ChannelSeries object start once the caller has dropped it,
\* and the User object of the self-info lookups as well
CanCall == pc = "idle" /\ chan = NoneValue /\ user = NoneValue

\* the caller takes the outcome of the call that ended
TakeResult ==
    /\ pc = "done"
    /\ op' = "none"
    /\ pc' = "idle"
    /\ cred' = EmptyCredential
    /\ args' = NoArgs
    /\ loc' = NoLoc
    /\ sent' = <<>>
    /\ recv' = <<>>
    /\ sleeps' = <<>>
    /\ result' = NoResult
    /\ prev' = IF op = "ChannelSeries.get_videos"
               THEN [obj |-> chan, args |-> args, req |-> sent[1]]
               ELSE prev
    /\ UNCHANGED <<inflight, chan, user, lookups>>

\* the caller drops its ChannelSeries object
Discard ==
    /\ pc = "idle"
    /\ chan # NoneValue
    /\ chan' = NoneValue
    /\ prev' = NoneValue
    /\ UNCHANGED <<op, pc, cred, args, loc, sent, inflight, recv, sleeps, result>>
    /\ UNCHANGED <<user, lookups>>

\* the call ends before its first request
EndAtEntry(name, c, a, res) ==
    /\ op' = name
    /\ pc' = "done"
    /\ cred' = c
    /\ args' = a
    /\ loc' = NoLoc
    /\ sent' = <<>>
    /\ inflight' = {}
    /\ recv' = <<>>
    /\ sleeps' = <<>>
    /\ result' = res
    /\ UNCHANGED <<user, lookups>>

\* the call issues its first request and awaits the answer
AwaitFirst(name, c, a, l, label, req) ==
    /\ op' = name
    /\ pc' = label
    /\ cred' = c
    /\ args' = a
    /\ loc' = l
    /\ sent' = <<req>>
    /\ inflight' = {req}
    /\ recv' = <<>>
    /\ sleeps' = <<>>
    /\ result' = NoResult
    /\ UNCHANGED <<user, lookups>>

\* the running call receives answer r and ends with res
Finish(r, res) ==
    /\ pc' = "done"
    /\ recv' = Append(recv, r)
    /\ inflight' = {}
    /\ result' = res
    /\ UNCHANGED <<op, cred, args, sent, sleeps, user, lookups>>

\* the running call receives answer r and issues req, awaiting it at label
AwaitNext(r, l, label, req) ==
    /\ pc' = label
    /\ recv' = Append(recv, r)
    /\ loc' = l
    /\ sent' = Append(sent, req)
    /\ inflight' = {req}
    /\ result' = NoResult
    /\ UNCHANGED <<op, cred, args, user, lookups>>

(***************************************************************************)
(* One-request operations: checks, then the request, then its payload.     *)
(***************************************************************************)
CallSimple(o, c, a, argsok) ==
    /\ CanCall
    /\ LET chk == RunChecks(o.pre, c, argsok)
       IN  IF chk # "ok"
           THEN EndAtEntry(o.name, c, a, Raise(chk))
           ELSE AwaitFirst(o.name, c, a, NoLoc, "request",
                           Request("request", o.method, o.api, a, o.auth, c))
    /\ UNCHANGED <<chan, prev>>

\* what the operation makes of the payload (get_self_coins picks "money")
SimpleResult(name, data) ==
    IF name = "get_self_coins"
    THEN IF "money" \in DOMAIN data THEN Return(data.money) ELSE Raise("KeyError")
    ELSE Return(data)

RespSimple(r) ==
    /\ pc = "request"
    /\ Finish(r, IF r.ok THEN SimpleResult(op, r.data) ELSE Raise(r.exc))
    /\ UNCHANGED <<loc, chan, prev>>

(***************************************************************************)
(* ChannelSeries: construction.                                            *)
(***************************************************************************)
Uids == {1, 2}

\* User.__init__
User(uid, credential) ==
    [uid |-> uid,
     credential |-> IF credential = NoneValue THEN EmptyCredential ELSE credential,
     self_info |-> NoneValue]

\* ChannelSeriesType: SERIES = 0, SEASON = 1
TypeValue(type_) == IF type_ = "SEASON" THEN 1 ELSE 0

\* a constructor that asserts the variant alone
CtorAsserts_TypeOnly(type_, id_) == type_ # "None"

\* the two asserts that open ChannelSeries.__init__
CtorAsserts(type_, id_) == id_ # -1 /\ type_ # "None"

\* the object when the caller supplies the metadata snapshot
CtorWithMeta(uid, type_, id_, credential, meta) ==
    [uid |-> uid, is_new |-> TypeValue(type_), id_ |-> id_,
     owner |-> User(uid, credential), credential |-> credential, meta |-> meta]

\* the unauthenticated httpx.get of the constructor
CtorRequest(type_, id_) ==
    IF TypeValue(type_) # 0
    THEN Request("httpx", "GET", "season_info", [season_id |-> id_], FALSE, EmptyCredential)
    ELSE Request("httpx", "GET", "info", [series_id |-> id_], FALSE, EmptyCredential)

Failed(exc) == [ok |-> FALSE, exc |-> exc]

\* a constructor that takes the fetched mid only when the caller gave no uid
OwnerAfterFetch_KeepsGiven(uid, meta, credential) ==
    User(IF uid = -1 THEN meta.mid ELSE uid, credential)

\* a constructor that keeps the owner proxy it made before the fetch
OwnerAfterFetch_Stale(uid, meta, credential) == User(uid, credential)

\* the owner proxy once the metadata is fetched
OwnerAfterFetch(uid, meta, credential) == User(meta.mid, credential)

\* the rest of the constructor, given the answer r to its httpx.get
CtorFromAnswer(uid, type_, id_, credential, r) ==
    IF ~r.ok THEN Failed(r.exc)
    ELSE LET j == json_loads(r.data)
         IN  IF ~j.ok THEN Failed("JSONDecodeError")
             ELSE IF "data" \notin DOMAIN j.val THEN Failed("KeyError")
             ELSE LET resp == j.val.data
                  IN  IF TypeValue(type_) # 0
                      THEN IF \/ "info" \notin DOMAIN resp
                              \/ "upper" \notin DOMAIN resp
                              \/ "mid" \notin DOMAIN resp.upper
                           THEN Failed("KeyError")
                           ELSE LET meta == ("mid" :> resp.upper.mid) @@ resp.info
                                IN  [ok |-> TRUE,
                                     obj |-> [uid |-> meta.mid, is_new |-> TypeValue(type_),
                                              id_ |-> id_,
                                              owner |-> OwnerAfterFetch(uid, meta, credential),
                                              credential |-> credential, meta |-> meta]]
                      ELSE IF "meta" \notin DOMAIN resp \/ "mid" \notin DOMAIN resp.meta
                           THEN Failed("KeyError")
                           ELSE LET meta == resp.meta
                                IN  [ok |-> TRUE,
                                     obj |-> [uid |-> meta.mid, is_new |-> TypeValue(type_),
                                              id_ |-> id_,
                                              owner |-> OwnerAfterFetch(uid, meta, credential),
                                              credential |-> credential, meta |-> meta]]

\* the texts the metadata endpoints answer with
LegacyDoc(m, t) ==
    <<P("{"), S("data"), P(":"), P("{"), S("meta"), P(":"), P("{"), S("mid"), P(":"), N(m),
      P(","), S("total"), P(":"), N(t), P("}"), P("}"), P("}")>>

SeasonDoc(m, t) ==
    <<P("{"), S("data"), P(":"), P("{"), S("info"), P(":"), P("{"), S("total"), P(":"), N(t),
      P("}"), P(","), S("upper"), P(":"), P("{"), S("mid"), P(":"), N(m), P("}"), P("}"),
      P("}")>>

OddDocs ==
    { <<P("{"), S("data"), P(":"), P("{")>>,
      <<P("{"), S("code"), P(":"), N(1), P("}")>>,
      <<P("{"), S("data"), P(":"), P("{"), S("meta"), P(":"), P("{"), S("mid"), P(":"), N(2),
        P("}"), P("}"), P("}")>> }

MetaDocs(mids, totals) ==
    {LegacyDoc(m, t) : m \in mids, t \in totals}
    \cup {SeasonDoc(m, t) : m \in mids, t \in totals}
    \cup OddDocs

\* httpx.get raises on a transport failure only
HttpxErrors == {[ok |-> FALSE, exc |-> "NetworkError", code |-> "none"]}

(***************************************************************************)
(* del_channel_series                                                      *)
(***************************************************************************)
PageSize == 20

\* a page count that leaves out a last page that is not full
Pages_Floor(series_total) == series_total \div PageSize

\* a page count that adds the last page whether or not it is partial
Pages_OneTooMany(series_total) == (series_total \div PageSize) + 1

\* pages = series_total // 20 + (1 if (series_total % 20 != 0) else 0)
Pages(series_total) ==
    (series_total \div PageSize) + (IF series_total % PageSize # 0 THEN 1 ELSE 0)

\* User(self_uid, credential).get_channel_videos_series(series_id, page, 20)
PageRequest(self_uid, series_id, page, c) ==
    Request("request", get_channel_videos_series.method, get_channel_videos_series.api,
            [mid |-> self_uid, series_id |-> series_id, pn |-> page, ps |-> PageSize],
            TRUE, c)

\* a loop that puts each page in front of the ids gathered so far
AppendAids_Prepend(aids, page_aids) == page_aids \o aids

\* for aid in page_info["aids"]: aids.append(aid)
AppendAids(aids, page_aids) == aids \o page_aids

DeleteRequest(self_uid, series_id, aids, c) ==
    Request("request", "POST", "del_channel_series",
            [mid |-> self_uid, series_id |-> series_id, aids |-> JoinAids(aids)], TRUE, c)

\* get_self_info(credential), called inside another operation
SelfInfoRequest(c) ==
    Request("request", get_self_info.method, get_self_info.api, NoArgs, get_self_info.auth, c)

\* a del_channel_series that forgets the session-token check
del_channel_series_pre_NoSessdata == <<"bili_jct">>

del_channel_series_pre == <<"sessdata", "bili_jct">>

CallDelChannelSeries(series_id, c) ==
    /\ CanCall
    /\ LET chk == RunChecks(del_channel_series_pre, c, TRUE)
           a == [series_id |-> series_id]
       IN  IF chk # "ok"
           THEN EndAtEntry("del_channel_series", c, a, Raise(chk))
           ELSE IF ~CtorAsserts("SERIES", series_id)
           THEN EndAtEntry("del_channel_series", c, a, Raise("AssertionError"))
           ELSE AwaitFirst("del_channel_series", c, a, NoLoc, "meta",
                           CtorRequest("SERIES", series_id))
    /\ UNCHANGED <<chan, prev>>

\* the metadata arrives: .get_meta()["total"], then get_self_info
RespDelMeta(r) ==
    /\ op = "del_channel_series"
    /\ pc = "meta"
    /\ LET made == CtorFromAnswer(-1, "SERIES", args.series_id, cred, r)
           chk == RunChecks(get_self_info.pre, cred, TRUE)
       IN  IF ~made.ok
           THEN Finish(r, Raise(made.exc)) /\ UNCHANGED loc
           ELSE IF "total" \notin DOMAIN made.obj.meta
           THEN Finish(r, Raise("KeyError")) /\ UNCHANGED loc
           ELSE IF chk # "ok"
           THEN Finish(r, Raise(chk)) /\ UNCHANGED loc
           ELSE AwaitNext(r, [series_total |-> made.obj.meta.total], "self_info",
                          SelfInfoRequest(cred))
    /\ UNCHANGED <<sleeps, chan, prev>>

\* what follows a page (or none): the next page while one is left, else the deletion
AfterPage(r, l) ==
    IF l.page < l.pages
    THEN AwaitNext(r, [l EXCEPT !.page = l.page + 1], "page",
                   PageRequest(l.self_uid, args.series_id, l.page + 1, cred))
    ELSE AwaitNext(r, l, "delete",
                   DeleteRequest(l.self_uid, args.series_id, l.aids, cred))

\* self info arrives: self_uid, the page count, and the first page or the deletion
RespDelSelfInfo(r) ==
    /\ op = "del_channel_series"
    /\ pc = "self_info"
    /\ IF ~r.ok
       THEN Finish(r, Raise(r.exc)) /\ UNCHANGED loc
       ELSE IF "mid" \notin DOMAIN r.data
       THEN Finish(r, Raise("KeyError")) /\ UNCHANGED loc
       ELSE AfterPage(r, [series_total |-> loc.series_total, self_uid |-> r.data.mid,
                          aids |-> <<>>, pages |-> Pages(loc.series_total), page |-> 0])
    /\ UNCHANGED <<sleeps, chan, prev>>

\* a page loop that goes on to the next page when a page read fails
RespDelPage_SkipsFailedPage(r) ==
    /\ op = "del_channel_series"
    /\ pc = "page"
    /\ AfterPage(r, IF r.ok /\ "aids" \in DOMAIN r.data
                    THEN [loc EXCEPT !.aids = AppendAids(loc.aids, r.data.aids)]
                    ELSE loc)
    /\ UNCHANGED <<sleeps, chan, prev>>

\* a page arrives: its aids are appended
RespDelPage(r) ==
    /\ op = "del_channel_series"
    /\ pc = "page"
    /\ IF ~r.ok
       THEN Finish(r, Raise(r.exc)) /\ UNCHANGED loc
       ELSE IF "aids" \notin DOMAIN r.data
       THEN Finish(r, Raise("KeyError")) /\ UNCHANGED loc
       ELSE AfterPage(r, [loc EXCEPT !.aids = AppendAids(loc.aids, r.data.aids)])
    /\ UNCHANGED <<sleeps, chan, prev>>

\* the deletion is answered
RespDelete(r) ==
    /\ op = "del_channel_series"
    /\ pc = "delete"
    /\ Finish(r, IF r.ok THEN Return(r.data) ELSE Raise(r.exc))
    /\ UNCHANGED <<loc, chan, prev>>

\* what the model lets the remote service answer
Totals == {PageSize * k + d : k \in 0..MaxPages, d \in {0, 1, PageSize - 1}}
SelfInfoPayloads == {[mid |-> m] : m \in Uids} \cup {[data |-> 0]}
PageAids == {<<>>, <<3>>, <<12, 3>>}
PagePayloads == {[aids |-> a] : a \in PageAids} \cup {[data |-> 0]}
SeriesIds == {-1, 7}

(***************************************************************************)
(* ChannelSeries as an operation of its own, and ChannelSeries.get_videos  *)
(***************************************************************************)
FullCredential == [sessdata |-> TRUE, bili_jct |-> TRUE, dedeuserid |-> TRUE]

CallChannelSeries(uid, type_, id_, credential, meta) ==
    /\ CanCall
    /\ prev' = NoneValue
    /\ LET a == [uid |-> uid, type_ |-> type_, id_ |-> id_, meta |-> meta]
       IN  IF ~CtorAsserts(type_, id_)
           THEN EndAtEntry("ChannelSeries", credential, a, Raise("AssertionError"))
                /\ UNCHANGED chan
           ELSE IF meta # NoneValue
           THEN /\ EndAtEntry("ChannelSeries", credential, a,
                              Return(CtorWithMeta(uid, type_, id_, credential, meta)))
                /\ chan' = CtorWithMeta(uid, type_, id_, credential, meta)
           ELSE /\ AwaitFirst("ChannelSeries", credential, a, NoLoc, "ctor",
                              CtorRequest(type_, id_))
                /\ UNCHANGED chan

RespChannelSeries(r) ==
    /\ op = "ChannelSeries"
    /\ pc = "ctor"
    /\ LET made == CtorFromAnswer(args.uid, args.type_, args.id_, cred, r)
       IN  IF made.ok
           THEN Finish(r, Return(made.obj)) /\ chan' = made.obj
           ELSE Finish(r, Raise(made.exc)) /\ UNCHANGED chan
    /\ UNCHANGED <<loc, prev>>

\* ChannelOrder: DEFAULT = "false", CHANGE = "true"
ChannelOrder == {"false", "true"}

\* User.get_channel_videos_season(sid, sort, pn, ps) of the owner proxy
SeasonVideosRequest(owner, sid, sort, pn, ps) ==
    Request("request", get_channel_videos_season.method, get_channel_videos_season.api,
            [mid |-> owner.uid, season_id |-> sid, sort_reverse |-> sort,
             page_num |-> pn, page_size |-> ps],
            TRUE, owner.credential)

\* User.get_channel_videos_series(sid, pn, ps) of the owner proxy
SeriesVideosRequest(owner, sid, pn, ps) ==
    Request("request", get_channel_videos_series.method, get_channel_videos_series.api,
            [mid |-> owner.uid, series_id |-> sid, pn |-> pn, ps |-> ps],
            TRUE, owner.credential)

\* a get_videos with the two branches the wrong way round
VideosRequest_Swapped(obj, sort, pn, ps) ==
    IF obj.is_new # 0
    THEN SeriesVideosRequest(obj.owner, obj.id_, pn, ps)
    ELSE SeasonVideosRequest(obj.owner, obj.id_, sort, pn, ps)

\* ChannelSeries.get_videos: the paging call of the variant
VideosRequest(obj, sort, pn, ps) ==
    IF obj.is_new # 0
    THEN SeasonVideosRequest(obj.owner, obj.id_, sort, pn, ps)
    ELSE SeriesVideosRequest(obj.owner, obj.id_, pn, ps)

CallGetVideos(sort, pn, ps) ==
    /\ pc = "idle"
    /\ chan # NoneValue
    /\ AwaitFirst("ChannelSeries.get_videos", chan.owner.credential,
                  [sort |-> sort, pn |-> pn, ps |-> ps], NoLoc, "videos",
                  VideosRequest(chan, sort, pn, ps))
    /\ UNCHANGED <<chan, prev>>

RespGetVideos(r) ==
    /\ pc = "videos"
    /\ Finish(r, IF r.ok THEN Return(r.data) ELSE Raise(r.exc))
    /\ UNCHANGED <<loc, chan, prev>>

(***************************************************************************)
(* User.get_channel_list and User.get_channels                             *)
(***************************************************************************)
ChannelListRequest(uid, page_size, c) ==
    Request("request", "GET", "channel_list",
            [mid |-> uid, page_num |-> 1, page_size |-> page_size], TRUE, c)

\* a second fetch that asks for as many items as the probe counted, 0 included
SecondPageSize_Raw(items) == items

\* a second fetch that keeps the page size of the probe
SecondPageSize_AlwaysOne(items) == 1

\* if items == 0: items = 1
SecondPageSize(items) == IF items = 0 THEN 1 ELSE items

CallChannelList(name, uid, c) ==
    /\ CanCall
    /\ AwaitFirst(name, c, [uid |-> uid], NoLoc, "probe", ChannelListRequest(uid, 1, c))
    /\ UNCHANGED <<chan, prev>>

HasTotal(res) ==
    /\ "items_lists" \in DOMAIN res
    /\ "page" \in DOMAIN res.items_lists
    /\ "total" \in DOMAIN res.items_lists.page

\* a probe that goes on to the second fetch without the pause
Sleep_Skipped(log, nsent, nrecv) == log

\* time.sleep(0.5): the log gains the requests issued and the answers
\* received by the time the pause is taken
Sleep(log, nsent, nrecv) == Append(log, [sent |-> nsent, recv |-> nrecv])

\* the probe is answered: the count, the sleep, the second fetch
RespProbe(r) ==
    /\ pc = "probe"
    /\ IF ~r.ok
       THEN Finish(r, Raise(r.exc)) /\ UNCHANGED loc
       ELSE IF ~HasTotal(r.data)
       THEN Finish(r, Raise("KeyError")) /\ UNCHANGED loc
       ELSE /\ sleeps' = Sleep(sleeps, Len(sent), Len(recv) + 1)
            /\ AwaitNext(r, [items |-> SecondPageSize(r.data.items_lists.page.total)], "fetch",
                         ChannelListRequest(args.uid,
                                            SecondPageSize(r.data.items_lists.page.total),
                                            cred))
    /\ UNCHANGED <<chan, prev>>

\* get_channels: one ChannelSeries per item, seasons first, each with its meta
Channels(uid, c, lists) ==
    [i \in 1..Len(lists.seasons_list) |->
        CtorWithMeta(uid, "SEASON", lists.seasons_list[i].meta.season_id, c,
                     lists.seasons_list[i].meta)]
    \o [i \in 1..Len(lists.series_list) |->
        CtorWithMeta(uid, "SERIES", lists.series_list[i].meta.series_id, c,
                     lists.series_list[i].meta)]

ChannelsResult(uid, c, data) ==
    IF \/ "items_lists" \notin DOMAIN data
       \/ "seasons_list" \notin DOMAIN data.items_lists
       \/ "series_list" \notin DOMAIN data.items_lists
    THEN Raise("KeyError")
    ELSE IF \/ \E i \in 1..Len(data.items_lists.seasons_list) :
                  ~CtorAsserts("SEASON", data.items_lists.seasons_list[i].meta.season_id)
            \/ \E i \in 1..Len(data.items_lists.series_list) :
                  ~CtorAsserts("SERIES", data.items_lists.series_list[i].meta.series_id)
    THEN Raise("AssertionError")
    ELSE Return(Channels(uid, c, data.items_lists))

\* the second fetch is answered
RespFetch(r) ==
    /\ pc = "fetch"
    /\ Finish(r, IF ~r.ok THEN Raise(r.exc)
                 ELSE IF op = "get_channels" THEN ChannelsResult(args.uid, cred, r.data)
                 ELSE Return(r.data))
    /\ UNCHANGED <<loc, chan, prev>>

SeasonItems == {<<>>, <<[meta |-> [season_id |-> 5, total |-> 1]]>>}
SeriesItems == {<<>>, <<[meta |-> [series_id |-> 7, total |-> 1]]>>, 
                <<[meta |-> [series_id |-> -1, total |-> 0]]>>}
ChannelListPayloads ==
    {[items_lists |-> [page |-> [total |-> t], seasons_list |-> a, series_list |-> b]] :
        t \in 0..MaxItems, a \in SeasonItems, b \in SeriesItems}
    \cup {[data |-> 0]}

(***************************************************************************)
(* create_channel_series, add_aids_to_series, del_aids_from_series         *)
(***************************************************************************)
create_channel_series ==
    [name |-> "create_channel_series", pre |-> <<"sessdata", "bili_jct">>, api |-> "create"]
add_aids_to_series ==
    [name |-> "add_aids_to_series", pre |-> <<"sessdata", "bili_jct">>,
     api |-> "add_channel_aids_series"]
del_aids_from_series ==
    [name |-> "del_aids_from_series", pre |-> <<"sessdata", "bili_jct">>,
     api |-> "del_channel_aids_series"]

SeriesWriteOps == {create_channel_series, add_aids_to_series, del_aids_from_series}

CallSeriesWrite(o, c, a) ==
    /\ CanCall
    /\ LET chk == RunChecks(o.pre \o get_self_info.pre, c, TRUE)
       IN  IF chk # "ok"
           THEN EndAtEntry(o.name, c, a, Raise(chk))
           ELSE AwaitFirst(o.name, c, a, NoLoc, "write_self_info", SelfInfoRequest(c))
    /\ UNCHANGED <<chan, prev>>

\* the POST with the caller's mid and the joined aids
WriteRequest(o, mid, a, c) ==
    Request("request", "POST", o.api,
            [mid |-> mid, target |-> a.target, aids |-> JoinAids(a.aids)], TRUE, c)

RespWriteSelfInfo(r) ==
    /\ pc = "write_self_info"
    /\ IF ~r.ok
       THEN Finish(r, Raise(r.exc)) /\ UNCHANGED loc
       ELSE IF "mid" \notin DOMAIN r.data
       THEN Finish(r, Raise("KeyError")) /\ UNCHANGED loc
       ELSE AwaitNext(r, [mid |-> r.data.mid], "post",
                      WriteRequest(CHOOSE o \in SeriesWriteOps : o.name = op,
                                   r.data.mid, args, cred))
    /\ UNCHANGED <<sleeps, chan, prev>>

RespPost(r) ==
    /\ pc = "post"
    /\ Finish(r, IF r.ok THEN Return(r.data) ELSE Raise(r.exc))
    /\ UNCHANGED <<loc, chan, prev>>

\* target: the series_id (or, for create_channel_series, the name)
SeriesWriteArgs == [target : {7}, aids : {<<>>, <<12, 3>>}]

(***************************************************************************)
(* check_nickname                                                          *)
(***************************************************************************)
\* str(e) of a ResponseCodeException (exceptions.py is not part of the
\* sources): a text that is never empty and carries the code
StrOfException(e) == <<e.exc, e.code>>

CallCheckNickname(nick_name) ==
    /\ CanCall
    /\ AwaitFirst("check_nickname", EmptyCredential, [nick_name |-> nick_name], NoLoc,
                  "nickname",
                  Request("request", "GET", "check_nickname", [nickName |-> nick_name],
                          FALSE, EmptyCredential))
    /\ UNCHANGED <<chan, prev>>

\* a check_nickname without its except clause
CheckNicknameResult_NoCatch(r) ==
    IF r.ok THEN Return(<<TRUE, <<>> >>) ELSE Raise(r.exc)

\* try: request   except ResponseCodeException as e: (False, str(e))   else: (True, "")
CheckNicknameResult(r) ==
    IF r.ok THEN Return(<<TRUE, <<>> >>)
    ELSE IF r.exc = "ResponseCodeException" THEN Return(<<FALSE, StrOfException(r)>>)
    ELSE Raise(r.exc)

RespCheckNickname(r) ==
    /\ pc = "nickname"
    /\ Finish(r, CheckNicknameResult(r))
    /\ UNCHANGED <<loc, chan, prev>>

Nicknames == {"valid_name", "taken_name"}

(***************************************************************************)
(* User.get_dynamics                                                       *)
(***************************************************************************)
CallGetDynamics(uid, c, offset, need_top) ==
    /\ CanCall
    /\ AwaitFirst("get_dynamics", c, [uid |-> uid, offset |-> offset, need_top |-> need_top],
                  NoLoc, "dynamics",
                  Request("request", "GET", "dynamic",
                          [host_uid |-> uid, offset_dynamic_id |-> offset,
                           need_top |-> IF need_top THEN 1 ELSE 0], TRUE, c))
    /\ UNCHANGED <<chan, prev>>

\* a loop body that parses "card" and leaves "extend_json" as the text it was
ParseCard_CardOnly(card) ==
    IF "card" \notin DOMAIN card THEN Failed("KeyError")
    ELSE IF ~json_loads(card.card).ok THEN Failed("JSONDecodeError")
    ELSE [ok |-> TRUE, val |-> [card EXCEPT !.card = json_loads(card.card).val]]

\* card["card"] = json.loads(card["card"]); the same for "extend_json"
ParseCard(card) ==
    IF "card" \notin DOMAIN card THEN Failed("KeyError")
    ELSE IF ~json_loads(card.card).ok THEN Failed("JSONDecodeError")
    ELSE IF "extend_json" \notin DOMAIN card THEN Failed("KeyError")
    ELSE IF ~json_loads(card.extend_json).ok THEN Failed("JSONDecodeError")
    ELSE [ok |-> TRUE,
          val |-> [card EXCEPT !.card = json_loads(card.card).val,
                               !.extend_json = json_loads(card.extend_json).val]]

\* for card in data["cards"]: ...   the first card that fails ends the loop
ParseCards(cards) ==
    LET bad == {i \in 1..Len(cards) : ~ParseCard(cards[i]).ok}
    IN  IF bad # {} THEN Failed(ParseCard(cards[Min(bad)]).exc)
        ELSE [ok |-> TRUE, val |-> [i \in 1..Len(cards) |-> ParseCard(cards[i]).val]]

\* a get_dynamics that hands back the payload as received when a card fails
DynamicsResult_Swallow(data) ==
    IF "cards" \in DOMAIN data /\ ParseCards(data.cards).ok
    THEN Return([data EXCEPT !.cards = ParseCards(data.cards).val])
    ELSE Return(data)

DynamicsResult(data) ==
    IF "cards" \in DOMAIN data
    THEN IF ParseCards(data.cards).ok
         THEN Return([data EXCEPT !.cards = ParseCards(data.cards).val])
         ELSE Raise(ParseCards(data.cards).exc)
    ELSE Return(data)

RespGetDynamics(r) ==
    /\ pc = "dynamics"
    /\ Finish(r, IF r.ok THEN DynamicsResult(r.data) ELSE Raise(r.exc))
    /\ UNCHANGED <<loc, chan, prev>>

CardTexts == { <<P("{"), S("a"), P(":"), N(1), P("}")>>, <<P("["), N(1), P("]")>>,
               <<P("{"), S("a"), P(":")>> }
ExtendTexts == { <<P("{"), P("}")>>, <<P("}")>> }
Cards == [card : CardTexts, extend_json : ExtendTexts, desc : {5}]
DynamicsPayloads ==
    {[cards |-> cs, next_offset |-> 0] : cs \in UNION {[1..k -> Cards] : k \in 0..MaxCards}}
    \cup {[next_offset |-> 0]}

(***************************************************************************)
(* User.get_user_fav_tag and User.get_all_followings: the two methods that *)
(* go to the session of get_session() instead of the gateway.              *)
(***************************************************************************)
CallDirect(name, api, c) ==
    /\ CanCall
    /\ AwaitFirst(name, c, NoArgs, NoLoc, "direct",
                  Request("session", "GET", api, NoArgs, TRUE, c))
    /\ UNCHANGED <<chan, prev>>

\* "not r_json", for the values the texts below decode to
Falsy(v) == v = <<>>

\* get_user_fav_tag: a text that does not decode, or decodes to an empty
\* value, is answered with a status dict instead of an error
FavTagResult(resp) ==
    LET j == json_loads(resp.text)
        r_json == IF j.ok THEN j.val
                  ELSE [status |-> FALSE, data |-> <<"decode_failed", resp.status_code>>]
    IN  IF Falsy(r_json) THEN [status |-> FALSE, data |-> <<"Failed">>] ELSE r_json

RespFavTag(r) ==
    /\ op = "get_user_fav_tag"
    /\ pc = "direct"
    /\ Finish(r, IF r.ok THEN Return(FavTagResult(r.data)) ELSE Raise(r.exc))
    /\ UNCHANGED <<loc, chan, prev>>

\* get_all_followings: json.loads(...)["card"]["attentions"]
AllFollowingsResult(resp) ==
    LET j == json_loads(resp.text)
    IN  IF ~j.ok THEN Raise("JSONDecodeError")
        ELSE IF "card" \notin DOMAIN j.val THEN Raise("KeyError")
        ELSE IF "attentions" \notin DOMAIN j.val.card THEN Raise("KeyError")
        ELSE Return(j.val.card.attentions)

RespAllFollowings(r) ==
    /\ op = "get_all_followings"
    /\ pc = "direct"
    /\ Finish(r, IF r.ok THEN AllFollowingsResult(r.data) ELSE Raise(r.exc))
    /\ UNCHANGED <<loc, chan, prev>>

DirectTexts ==
    { <<P("{"), S("card"), P(":"), P("{"), S("attentions"), P(":"), P("["), N(1), P("]"),
        P("}"), P("}")>>,
      <<P("{"), S("card"), P(":"), P("{"), P("}"), P("}")>>,
      <<P("{"), P("}")>>,
      <<P("{"), S("card")>> }
DirectAnswers == HttpxErrors \cup {Ok([text |-> t, status_code |-> 200]) : t \in DirectTexts}

(***************************************************************************)
(* User.__init__ and User.__get_self_info: the self-info slot of a User    *)
(* object.  A lookup that finds the slot empty awaits get_self_info, and   *)
(* another task may enter the method on the same object during that await. *)
(***************************************************************************)
\* user = User(uid, credential)
NewUser(uid, c) ==
    /\ CanCall
    /\ user' = User(uid, c)
    /\ UNCHANGED <<op, pc, cred, args, loc, sent, inflight, recv, sleeps, result, chan, prev,
                   lookups>>

\* the caller drops the User object, no lookup being under way
DropUser ==
    /\ user # NoneValue
    /\ \A t \in Tasks : lookups[t].pc = "idle"
    /\ user' = NoneValue
    /\ UNCHANGED <<op, pc, cred, args, loc, sent, inflight, recv, sleeps, result, chan, prev,
                   lookups>>

\* the lookup of a task that entered __get_self_info with the slot holding seen
Lookup(label, seen, reqs, answers, res) ==
    [pc |-> label, seen |-> seen, sent |-> reqs, recv |-> answers, result |-> res]

\* task t enters __get_self_info: the cached value, or get_self_info(credential)
CallUserGetSelfInfo(t) ==
    /\ pc = "idle"
    /\ user # NoneValue
    /\ lookups[t].pc = "idle"
    /\ LET chk == RunChecks(get_self_info.pre, user.credential, TRUE)
           now == IF user.self_info # NoneValue
                  THEN Lookup("done", user.self_info, <<>>, <<>>, Return(user.self_info))
                  ELSE IF chk # "ok"
                  THEN Lookup("done", NoneValue, <<>>, <<>>, Raise(chk))
                  ELSE Lookup("fetch", NoneValue, <<SelfInfoRequest(user.credential)>>, <<>>,
                              NoResult)
       IN  lookups' = [lookups EXCEPT ![t] = now]
    /\ UNCHANGED <<op, pc, cred, args, loc, sent, inflight, recv, sleeps, result, chan, prev,
                   user>>

\* the slot after the answer r to the fetch of a lookup
StoreSelfInfo(u, r) == [u EXCEPT !.self_info = r.data]

\* the fetch of task t is answered: the slot is assigned and returned, or the
\* error leaves the method
RespUserGetSelfInfo(t, r) ==
    /\ pc = "idle"
    /\ user # NoneValue
    /\ lookups[t].pc = "fetch"
    /\ IF r.ok
       THEN /\ user' = StoreSelfInfo(user, r)
            /\ lookups' = [lookups EXCEPT ![t] =
                              Lookup("done", lookups[t].seen, lookups[t].sent, <<r>>,
                                     Return(StoreSelfInfo(user, r).self_info))]
       ELSE /\ user' = user
            /\ lookups' = [lookups EXCEPT ![t] =
                              Lookup("done", lookups[t].seen, lookups[t].sent, <<r>>,
                                     Raise(r.exc))]
    /\ UNCHANGED <<op, pc, cred, args, loc, sent, inflight, recv, sleeps, result, chan, prev>>

\* task t takes the outcome of its lookup
TakeUserGetSelfInfo(t) ==
    /\ lookups[t].pc = "done"
    /\ lookups' = [lookups EXCEPT ![t] = NoLookup]
    /\ UNCHANGED <<op, pc, cred, args, loc, sent, inflight, recv, sleeps, result, chan, prev,
                   user>>

NotesArgs == [page_num : 0..MaxPageArg, page_size : 0..MaxPageArg]

Next ==
    \/ TakeResult
    \/ Discard
    \/ \E o \in UserSimpleOps \cup FreeSimpleOps, c \in Credentials :
          CallSimple(o, c, NoArgs, TRUE)
    \/ \E o \in NotesOps, c \in Credentials, a \in NotesArgs :
          CallSimple(o, c, a, a.page_num > 0 /\ a.page_size > 0)
    \/ \E r \in GatewayErrors \cup {Ok(d) : d \in SimplePayloads} : RespSimple(r)
    \/ \E i \in SeriesIds, c \in Credentials : CallDelChannelSeries(i, c)
    \/ \E r \in HttpxErrors \cup {Ok(d) : d \in MetaDocs({2}, Totals)} : RespDelMeta(r)
    \/ \E r \in GatewayErrors \cup {Ok(d) : d \in SelfInfoPayloads} : RespDelSelfInfo(r)
    \/ \E r \in GatewayErrors \cup {Ok(d) : d \in PagePayloads} : RespDelPage(r)
    \/ \E r \in GatewayErrors \cup {Ok(d) : d \in SimplePayloads} : RespDelete(r)
    \/ \E u \in {-1, 1}, t \in {"SERIES", "SEASON", "None"}, i \in SeriesIds,
          c \in {NoneValue, FullCredential}, m \in {NoneValue, [mid |-> 2, total |-> 1]} :
          CallChannelSeries(u, t, i, c, m)
    \/ \E r \in HttpxErrors \cup {Ok(d) : d \in MetaDocs(Uids, {1})} : RespChannelSeries(r)
    \/ \E s \in ChannelOrder, pn \in 1..MaxPageArg, ps \in 1..MaxPageArg :
          CallGetVideos(s, pn, ps)
    \/ \E r \in GatewayErrors \cup {Ok(d) : d \in SimplePayloads} : RespGetVideos(r)
    \/ \E n \in {"get_channel_list", "get_channels"}, u \in Uids,
          c \in {EmptyCredential, FullCredential} : CallChannelList(n, u, c)
    \/ \E r \in GatewayErrors \cup {Ok(d) : d \in ChannelListPayloads} : RespProbe(r)
    \/ \E r \in GatewayErrors \cup {Ok(d) : d \in ChannelListPayloads} : RespFetch(r)
    \/ \E o \in SeriesWriteOps, c \in Credentials, a \in SeriesWriteArgs :
          CallSeriesWrite(o, c, a)
    \/ \E r \in GatewayErrors \cup {Ok(d) : d \in SelfInfoPayloads} : RespWriteSelfInfo(r)
    \/ \E r \in GatewayErrors \cup {Ok(d) : d \in SimplePayloads} : RespPost(r)
    \/ \E n \in Nicknames : CallCheckNickname(n)
    \/ \E r \in GatewayErrors \cup {Ok(d) : d \in SimplePayloads} : RespCheckNickname(r)
    \/ \E u \in Uids, c \in {EmptyCredential, FullCredential}, t \in BOOLEAN :
          CallGetDynamics(u, c, 0, t)
    \/ \E r \in GatewayErrors \cup {Ok(d) : d \in DynamicsPayloads} : RespGetDynamics(r)
    \/ \E c \in Credentials :
          \/ CallDirect("get_user_fav_tag", "user_tag", c)
          \/ CallDirect("get_all_followings", "all_followings", c)
    \/ \E r \in DirectAnswers : RespFavTag(r)
    \/ \E r \in DirectAnswers : RespAllFollowings(r)
    \/ \E c \in {EmptyCredential, FullCredential} : NewUser(1, c)
    \/ DropUser
    \/ \E t \in Tasks : CallUserGetSelfInfo(t)
    \/ \E t \in Tasks, r \in GatewayErrors \cup {Ok(d) : d \in SelfInfoPayloads} :
          RespUserGetSelfInfo(t, r)
    \/ \E t \in Tasks : TakeUserGetSelfInfo(t)

Spec == Init /\ [][Next]_vars

(***************************************************************************)
(* Properties.                                                             *)
(***************************************************************************)
Last(q) == q[Len(q)]

PreconditionError == Raise("CredentialNoSessdataException")

\* the operations the credential contract names as needing the session token
SessionOps ==
    {"set_space_notice", "modify_relation", "get_user_medal", "get_self_info",
     "edit_self_info", "create_subscribe_group", "delete_subscribe_group",
     "rename_subscribe_group", "set_subscribe_group", "get_self_history",
     "get_self_coins", "get_toview_list", "clear_toview_list",
     "delete_viewed_videos_from_toview", "get_self_notes_info",
     "get_self_public_notes_info", "create_channel_series", "del_channel_series",
     "add_aids_to_series", "del_aids_from_series"}

NotesNames == {"get_self_notes_info", "get_self_public_notes_info"}

\* the arguments pass the assertions the operation opens with
ArgsAccepted == op \in NotesNames => (args.page_num > 0 /\ args.page_size > 0)

\* C1, as stated: whatever the arguments, an operation that needs the session
\* token and is given a credential without it has raised the precondition
\* error, and no request has been issued.
C1_AsStated ==
    (op \in SessionOps /\ ~cred.sessdata)
        => (pc = "done" /\ result = PreconditionError /\ sent = <<>>)

\* C1, amended: such a call issues no request and ends by raising; it raises
\* the precondition error whenever the arguments pass the operation's own
\* assertions, and AssertionError when a notes function is given a page_num
\* or page_size that is not positive.
C1_NoSessdataRaisesBeforeNetwork ==
    (op \in SessionOps /\ ~cred.sessdata)
        => /\ pc = "done"
           /\ sent = <<>>
           /\ inflight = {}
           /\ result = IF ArgsAccepted THEN PreconditionError ELSE Raise("AssertionError")

C1_Witness ==
    /\ op = "get_self_notes_info"
    /\ args.page_num > 0 /\ args.page_size > 0
    /\ ~cred.sessdata /\ cred.bili_jct
    /\ pc = "done"
    /\ result = PreconditionError

\* the decimal digits of s, read back: the list of ints a joined text stands for
DigitValue(ch) == CHOOSE d \in 0..9 : Digits[d + 1] = ch

RECURSIVE SplitInts(_, _, _)
SplitInts(cs, cur, acc) ==
    IF cs = <<>> THEN (IF cur = -1 THEN acc ELSE Append(acc, cur))
    ELSE IF Head(cs) = "," THEN SplitInts(Tail(cs), -1, Append(acc, cur))
    ELSE SplitInts(Tail(cs), (IF cur = -1 THEN 0 ELSE cur * 10) + DigitValue(Head(cs)), acc)

\* the positions in sent (and recv) of the page reads of del_channel_series
PageReads == {i \in 1..Len(sent) : sent[i].api = "channel_video_series"}

\* the position of the read of page p
ReadOf(p) == CHOOSE i \in PageReads : sent[i].payload.pn = p

RECURSIVE ConcatPages(_, _)
ConcatPages(p, n) ==
    IF p > n THEN <<>> ELSE recv[ReadOf(p)].data.aids \o ConcatPages(p + 1, n)

DeletionSent == op = "del_channel_series" /\ pc \in {"delete", "done"}
                /\ sent # <<>> /\ Last(sent).api = "del_channel_series"

\* C2: the ids del_channel_series submits for deletion are the ids of the
\* pages it read, page 1 first and each page in its own order, none dropped,
\* repeated or moved.
C2_DeletionListIsConcatenationOfPages ==
    DeletionSent =>
        LET n == Cardinality(PageReads)
        IN  /\ \A p \in 1..n : Cardinality({i \in PageReads : sent[i].payload.pn = p}) = 1
            /\ \A i, j \in PageReads : i < j => sent[i].payload.pn < sent[j].payload.pn
            /\ SplitInts(Last(sent).payload.aids, -1, <<>>) = ConcatPages(1, n)

C2_Witness ==
    /\ DeletionSent
    /\ pc = "done"
    /\ result.kind = "return"
    /\ Cardinality(PageReads) >= 2
    /\ recv[ReadOf(1)].data.aids = <<12, 3>>
    /\ recv[ReadOf(2)].data.aids = <<3>>
    /\ Last(sent).payload.aids = <<"1", "2", ",", "3", ",", "3">>

ProbeTotal == recv[1].data.items_lists.page.total

ProbeReported == Len(recv) >= 1 /\ recv[1].ok /\ HasTotal(recv[1].data)

\* C3: when the probe of get_channel_list reports more than one item, the
\* call issues two fetches, the first of page size 1 and the second of page
\* size that total, and what it returns is the payload of the second.
C3_ProbeThenFetch ==
    (op = "get_channel_list" /\ ProbeReported /\ ProbeTotal > 1)
        => /\ Len(sent) = 2
           /\ sent[1].api = "channel_list" /\ sent[2].api = "channel_list"
           /\ sent[1].payload.page_size = 1
           /\ sent[2].payload.page_size = ProbeTotal
           /\ (pc = "done" => Len(recv) = 2)
           /\ (pc = "done" /\ result.kind = "return" => result.val = recv[2].data)

C3_Witness ==
    /\ op = "get_channel_list"
    /\ ProbeReported
    /\ ProbeTotal = MaxItems
    /\ pc = "done"
    /\ result.kind = "return"
    /\ sent[2].payload.page_size = MaxItems

NicknameRejected(r) ==
    ~r.ok /\ r.exc = "ResponseCodeException" /\ r.code = "nickname_rejected"

\* C4: check_nickname returns (True, "") when the service accepts the name,
\* and (False, reason) with a reason that is not empty when the service
\* rejects it as taken or invalid; it never raises for that rejection.
C4_NicknameResultPair ==
    (op = "check_nickname" /\ pc = "done")
        => /\ recv[1].ok => result = Return(<<TRUE, <<>> >>)
           /\ NicknameRejected(recv[1])
                => /\ result.kind = "return"
                   /\ result.val[1] = FALSE
                   /\ result.val[2] # <<>>

C4_Witness ==
    /\ op = "check_nickname"
    /\ pc = "done"
    /\ NicknameRejected(recv[1])
    /\ result.kind = "return"
    /\ result.val[1] = FALSE

\* C5, as stated: check_nickname turns only the nickname rejection into a
\* result pair; any other error of the gateway, a remote error with another
\* status code included, reaches the caller as an error.
C5_OnlyTheRejectionIsConverted ==
    (op = "check_nickname" /\ pc = "done" /\ ~recv[1].ok /\ ~NicknameRejected(recv[1]))
        => result = Raise(recv[1].exc)

TextObjectA1 == <<P("{"), S("a"), P(":"), N(1), P("}")>>

AllCardsParse(cards) ==
    \A i \in 1..Len(cards) :
        json_loads(cards[i].card).ok /\ json_loads(cards[i].extend_json).ok

\* C6: get_dynamics returns the payload with "card" and "extend_json" of every
\* card replaced by their parsed values and everything else as received; a
\* payload without "cards" comes back unchanged; a text that does not parse
\* makes the call raise the decode error instead of returning.
C6_DynamicsCardsParsed ==
    (op = "get_dynamics" /\ pc = "done" /\ recv[1].ok)
        => LET data == recv[1].data
           IN  IF "cards" \notin DOMAIN data THEN result = Return(data)
               ELSE IF ~AllCardsParse(data.cards) THEN result = Raise("JSONDecodeError")
               ELSE /\ result.kind = "return"
                    /\ DOMAIN result.val = DOMAIN data
                    /\ \A f \in DOMAIN data \ {"cards"} : result.val[f] = data[f]
                    /\ Len(result.val.cards) = Len(data.cards)
                    /\ \A i \in 1..Len(data.cards) :
                        LET got == result.val.cards[i]
                            was == data.cards[i]
                        IN  /\ DOMAIN got = DOMAIN was
                            /\ got.card = json_loads(was.card).val
                            /\ got.extend_json = json_loads(was.extend_json).val
                            /\ was.card = TextObjectA1 => got.card = [a |-> 1]
                            /\ got.card # was.card
                            /\ got.extend_json # was.extend_json
                            /\ \A f \in DOMAIN was \ {"card", "extend_json"} :
                                   got[f] = was[f]

C6_Witness ==
    /\ op = "get_dynamics"
    /\ pc = "done"
    /\ recv[1].ok
    /\ "cards" \in DOMAIN recv[1].data
    /\ Len(recv[1].data.cards) = 2
    /\ recv[1].data.cards[1].card = TextObjectA1
    /\ recv[1].data.cards[2].card = <<P("["), N(1), P("]")>>
    /\ result.kind = "return"
    /\ result.val.cards[1].card = [a |-> 1]
    /\ result.val.cards[2].card = <<1>>
    /\ result.val.cards[2].desc = 5

\* the "mid" the fetched metadata carries for the variant
FetchedMid(type_, text) ==
    IF type_ = "SEASON" THEN json_loads(text).val.data.upper.mid
    ELSE json_loads(text).val.data.meta.mid

Constructed == op = "ChannelSeries" /\ pc = "done" /\ result.kind = "return"

\* C7: a ChannelSeries built from a collection id alone, with no owner id and
\* no metadata snapshot, ends construction with its owner proxy's uid equal to
\* the "mid" of the fetched metadata (of the fetched "upper" record for the
\* modern variant).
C7_OwnerResolvedFromMetadata ==
    (Constructed /\ args.uid = -1 /\ args.meta = NoneValue)
        => /\ result.val.owner.uid = FetchedMid(args.type_, recv[1].data)
           /\ result.val.owner.uid \in Uids
           /\ chan = result.val

C7_Witness ==
    /\ Constructed
    /\ args.uid = -1
    /\ args.meta = NoneValue
    /\ args.type_ = "SERIES"
    /\ recv[1].data = LegacyDoc(2, 1)
    /\ chan.owner.uid = 2

GetVideos == op = "ChannelSeries.get_videos"

\* C8: get_videos issues one paging call, the season-shaped one for the
\* modern variant and the series-shaped one for the legacy variant; for the
\* legacy variant two calls that differ in sort alone issue the same request.
C8_GetVideosDispatch ==
    GetVideos
        => /\ Len(sent) = 1
           /\ chan.is_new = 1 =>
                /\ sent[1].api = "channel_video_season"
                /\ sent[1].payload = [mid |-> chan.owner.uid, season_id |-> chan.id_,
                                      sort_reverse |-> args.sort, page_num |-> args.pn,
                                      page_size |-> args.ps]
           /\ chan.is_new = 0 =>
                /\ sent[1].api = "channel_video_series"
                /\ sent[1].payload = [mid |-> chan.owner.uid, series_id |-> chan.id_,
                                      pn |-> args.pn, ps |-> args.ps]
                /\ (/\ prev # NoneValue
                    /\ prev.obj = chan
                    /\ prev.args.pn = args.pn
                    /\ prev.args.ps = args.ps) => prev.req = sent[1]

C8_Witness ==
    /\ GetVideos
    /\ pc = "done"
    /\ chan.is_new = 0
    /\ prev # NoneValue
    /\ prev.obj = chan
    /\ prev.args.pn = args.pn
    /\ prev.args.ps = args.ps
    /\ prev.args.sort # args.sort
    /\ prev.req = sent[1]

\* the account-scoped free functions that read private data, and those that write
AccountReads ==
    {"get_self_info", "get_self_history", "get_self_coins", "get_toview_list",
     "get_self_events", "get_self_notes_info", "get_self_public_notes_info"}

AccountWrites ==
    {"edit_self_info", "create_subscribe_group", "delete_subscribe_group",
     "rename_subscribe_group", "set_subscribe_group", "clear_toview_list",
     "delete_viewed_videos_from_toview"}

\* C9, as stated: no account-scoped free function reaches its request with a
\* credential that lacks the session token, nor, for a write, one that lacks
\* the cross-site-request token.
C9_TokensValidatedBeforeRequest ==
    \A i \in 1..Len(sent) :
        /\ op \in AccountReads \cup AccountWrites => sent[i].cred.sessdata
        /\ op \in AccountWrites => sent[i].cred.bili_jct

\* C10, as stated: a call issues one request, or two for get_channel_list and
\* del_channel_series, and never has more than one in flight.
C10_AtMostTwoRequests ==
    /\ Cardinality(inflight) <= 1
    /\ Len(sent) <= 2

TwoRequestOps ==
    {"get_channel_list", "get_channels", "create_channel_series", "add_aids_to_series",
     "del_aids_from_series"}

CeilDiv(a, b) == (a + b - 1) \div b

\* the total in the metadata del_channel_series fetched
FetchedTotal == json_loads(recv[1].data).val.data.meta.total

\* the most requests a call of the operation issues, as far as it has got
RequestLimit ==
    IF op \in TwoRequestOps THEN 2
    ELSE IF op = "del_channel_series"
    THEN IF Len(sent) >= 2 THEN 3 + CeilDiv(FetchedTotal, PageSize) ELSE 1
    ELSE 1

\* C10, amended: a call issues its requests one after the other, never more
\* than one in flight; one request, or two for get_channel_list, get_channels,
\* create_channel_series, add_aids_to_series and del_aids_from_series; and
\* del_channel_series issues 3 + ceil(total / 20) of them when it runs to its
\* end, total being what the fetched metadata reports.
C10_SequentialRequests ==
    /\ Cardinality(inflight) <= 1
    /\ inflight = (IF pc \in {"idle", "done"} THEN {} ELSE {Last(sent)})
    /\ Len(sent) = Len(recv) + Cardinality(inflight)
    /\ Len(sent) <= RequestLimit
    /\ (DeletionSent /\ pc = "done") => Len(sent) = 3 + CeilDiv(FetchedTotal, PageSize)

C10_Witness ==
    /\ op = "del_channel_series"
    /\ pc = "done"
    /\ result.kind = "return"
    /\ FetchedTotal = PageSize * MaxPages + 1
    /\ Len(sent) = 3 + MaxPages + 1

\* an answer of the call was a failure of the network call
RequestFailed == \E i \in 1..Len(recv) : ~recv[i].ok

\* the text an answer of the call carried did not decode
DecodeFailed ==
    /\ Len(recv) >= 1
    /\ recv[1].ok
    /\ \/ op \in {"ChannelSeries", "del_channel_series"} /\ ~json_loads(recv[1].data).ok
       \/ op \in {"get_user_fav_tag", "get_all_followings"}
              /\ ~json_loads(recv[1].data.text).ok
       \/ op = "get_dynamics" /\ "cards" \in DOMAIN recv[1].data
              /\ ~AllCardsParse(recv[1].data.cards)

\* the failure the call met: the error of the request, or the decode error
Failure == IF ~Last(recv).ok THEN Last(recv).exc ELSE "JSONDecodeError"

\* the failure was the last thing the call saw, and nothing was requested after
StopsAtFailure ==
    /\ pc = "done"
    /\ Len(sent) = Len(recv)
    /\ inflight = {}
    /\ \A i \in 1..Len(recv) : ~recv[i].ok => i = Len(recv)

\* C11, as stated: in every operation other than check_nickname, a request
\* that fails, or an answer that does not decode, ends the call: no further
\* request is issued and the call raises that failure, never returns a value.
C11_AsStated ==
    (op # "check_nickname" /\ (RequestFailed \/ DecodeFailed))
        => (StopsAtFailure /\ result = Raise(Failure))

\* what get_user_fav_tag returns for a text that does not decode
FavTagDecodeFailed ==
    op = "get_user_fav_tag" /\ Len(recv) >= 1 /\ recv[1].ok
        /\ ~json_loads(recv[1].data.text).ok

\* C11, amended: a failed request, or an answer that does not decode, ends
\* the call with no further request; the call raises that failure, except
\* that get_user_fav_tag answers a text that does not decode by returning a
\* status dict (status False, data naming the decode failure and the HTTP
\* status code) instead of raising. A failed request raises in
\* get_user_fav_tag as everywhere else.
C11_FailureEndsTheCall ==
    (op # "check_nickname" /\ (RequestFailed \/ DecodeFailed))
        => /\ StopsAtFailure
           /\ result = IF FavTagDecodeFailed
                       THEN Return([status |-> FALSE,
                                    data |-> <<"decode_failed", recv[1].data.status_code>>])
                       ELSE Raise(Failure)

C11_Witness ==
    /\ op = "del_channel_series"
    /\ pc = "done"
    /\ Len(recv) = 4
    /\ recv[3].ok
    /\ ~recv[4].ok
    /\ recv[4].exc = "NetworkError"
    /\ sent[4].api = "channel_video_series"
    /\ sent[4].payload.pn = 2
    /\ Len(sent) = 4
    /\ result = Raise("NetworkError")

\* the ChannelSeries objects a get_channels call returned
ChannelsReturned ==
    IF op = "get_channels" /\ pc = "done" /\ result.kind = "return"
    THEN {result.val[i] : i \in 1..Len(result.val)}
    ELSE {}

\* C13: every ChannelSeries that construction yields has a collection id
\* other than -1 and a variant; a construction with the id absent (-1) or
\* the variant unspecified (None) raises before any metadata fetch is issued
\* and yields no object.
C13_ConstructedHasIdAndVariant ==
    /\ (op = "ChannelSeries" /\ (args.id_ = -1 \/ args.type_ = "None"))
          => /\ pc = "done"
             /\ result = Raise("AssertionError")
             /\ sent = <<>>
             /\ chan = NoneValue
    /\ Constructed
          => /\ result.val.id_ = args.id_
             /\ result.val.id_ # -1
             /\ args.type_ \in {"SERIES", "SEASON"}
             /\ result.val.is_new = (IF args.type_ = "SEASON" THEN 1 ELSE 0)
    /\ chan # NoneValue => (chan.id_ # -1 /\ chan.is_new \in {0, 1})
    /\ \A o \in ChannelsReturned : o.id_ # -1 /\ o.is_new \in {0, 1}
    /\ (op = "del_channel_series" /\ args.series_id = -1)
          => (pc = "done" /\ result.kind = "raise" /\ sent = <<>>)

C13_Witness ==
    /\ op = "ChannelSeries"
    /\ args.id_ = -1
    /\ args.type_ = "SEASON"
    /\ args.meta # NoneValue
    /\ pc = "done"
    /\ result = Raise("AssertionError")
    /\ sent = <<>>
    /\ chan = NoneValue

\* the positions in sent of the deletion requests of del_channel_series
DeleteRequests == {i \in 1..Len(sent) : sent[i].api = "del_channel_series"}

\* the read at position j was answered, and answered well
ReadSucceeded(j) ==
    /\ j <= Len(recv)
    /\ recv[j].ok
    /\ j = 1 => /\ json_loads(recv[1].data).ok
                /\ "data" \in DOMAIN json_loads(recv[1].data).val
    /\ j = 2 => "mid" \in DOMAIN recv[2].data
    /\ j >= 3 => "aids" \in DOMAIN recv[j].data

\* C14: del_channel_series sends its deletion request only once the metadata
\* read, the self-info read and every page read have been answered
\* successfully; after a read that failed no deletion request is sent.
C14_DeletionAfterAllReads ==
    op = "del_channel_series"
        => /\ \A i \in DeleteRequests :
                /\ i = Len(sent)
                /\ i >= 3
                /\ sent[1] = CtorRequest("SERIES", args.series_id)
                /\ sent[2] = SelfInfoRequest(cred)
                /\ \A j \in 3..(i - 1) : sent[j].api = "channel_video_series"
                /\ \A j \in 1..(i - 1) : ReadSucceeded(j)
                /\ {sent[j].payload.pn : j \in 3..(i - 1)}
                      = 1..CeilDiv(FetchedTotal, PageSize)
           /\ (\E j \in 1..Len(recv) :
                   sent[j].api # "del_channel_series" /\ ~ReadSucceeded(j))
                => (DeleteRequests = {} /\ pc = "done" /\ result.kind = "raise")

C14_Witness ==
    /\ op = "del_channel_series"
    /\ pc = "delete"
    /\ DeleteRequests = {5}
    /\ FetchedTotal = PageSize + 1
    /\ recv[3].data.aids = <<12, 3>>
    /\ recv[4].data.aids = <<3>>

ChannelListOps == {"get_channel_list", "get_channels"}

\* C15: in get_channel_list the pause is taken once per call that got a count
\* from its probe, whatever the count: after the probe has been answered and
\* before the second fetch is issued; it is never taken twice, never taken
\* before the probe's answer, and no second fetch is issued without it.
C15_OnePauseBetweenProbeAndFetch ==
    op \in ChannelListOps
        => /\ Len(sleeps) <= 1
           /\ ProbeReported => sleeps = <<[sent |-> 1, recv |-> 1]>>
           /\ Len(sent) >= 2 => sleeps = <<[sent |-> 1, recv |-> 1]>>
           /\ ~ProbeReported => (sleeps = <<>> /\ Len(sent) <= 1)

C15_Witness ==
    /\ op = "get_channel_list"
    /\ ProbeReported
    /\ ProbeTotal = 0
    /\ pc = "done"
    /\ Len(sent) = 2
    /\ sleeps = <<[sent |-> 1, recv |-> 1]>>

\* a construction call whose arguments pass the two asserts
CtorCall == op = "ChannelSeries" /\ args.id_ # -1 /\ args.type_ # "None"

\* the "data" of the fetched metadata
FetchedData == json_loads(recv[1].data).val.data

\* C16: construction fetches the metadata if and only if no snapshot was
\* supplied. With a snapshot: no request, meta is the snapshot, the owner uid
\* is the uid supplied. Without: one request, unauthenticated; meta is taken
\* from the answer and the owner uid is the fetched mid, whatever uid the
\* caller supplied; a fetch that fails makes construction fail.
C16_FetchIffNoSnapshot ==
    CtorCall
        => /\ args.meta # NoneValue
                => /\ sent = <<>>
                   /\ Constructed
                   /\ result.val.meta = args.meta
                   /\ result.val.owner.uid = args.uid
                   /\ chan = result.val
           /\ args.meta = NoneValue
                => /\ Len(sent) = 1
                   /\ sent[1].via = "httpx"
                   /\ sent[1].auth = FALSE
                   /\ sent[1].cred = EmptyCredential
                   /\ sent[1].payload = (IF args.type_ = "SEASON"
                                          THEN [season_id |-> args.id_]
                                          ELSE [series_id |-> args.id_])
                   /\ pc = "done" => Len(recv) = 1
                   /\ (pc = "done" /\ ~recv[1].ok)
                        => (result = Raise(recv[1].exc) /\ chan = NoneValue)
                   /\ (pc = "done" /\ result.kind = "raise") => chan = NoneValue
                   /\ Constructed
                        => /\ recv[1].ok
                           /\ result.val.owner.uid = FetchedMid(args.type_, recv[1].data)
                           /\ result.val.meta.mid = FetchedMid(args.type_, recv[1].data)
                           /\ args.type_ = "SERIES" => result.val.meta = FetchedData.meta
                           /\ args.type_ = "SEASON"
                                => \A f \in DOMAIN FetchedData.info :
                                       result.val.meta[f] = FetchedData.info[f]
                           /\ chan = result.val

C16_Witness ==
    /\ Constructed
    /\ args.uid = 1
    /\ args.meta = NoneValue
    /\ args.type_ = "SEASON"
    /\ recv[1].data = SeasonDoc(2, 1)
    /\ Len(sent) = 1
    /\ result.val.meta = [mid |-> 2, total |-> 1]
    /\ result.val.owner.uid = 2

\* C17: del_channel_series reads pages 1, 2, ..., ceil(total / 20) of the
\* collection, total being the "total" of the metadata it fetched: in
\* ascending order, page size 20 each, each page once; with total 0 it reads
\* no page and submits the deletion with an empty id list.
C17_WalksCeilPages ==
    (op = "del_channel_series" /\ Len(sent) >= 3)
        => /\ \A i \in PageReads :
                /\ i >= 3
                /\ sent[i].payload.pn = i - 2
                /\ sent[i].payload.ps = 20
                /\ sent[i].payload.series_id = args.series_id
           /\ Cardinality(PageReads) <= CeilDiv(FetchedTotal, 20)
           /\ PageReads = 3..(2 + Cardinality(PageReads))
           /\ DeletionSent
                => /\ Cardinality(PageReads) = CeilDiv(FetchedTotal, 20)
                   /\ Len(sent) = 3 + Cardinality(PageReads)
                   /\ FetchedTotal = 0
                        => (PageReads = {} /\ Last(sent).payload.aids = <<>>)
           /\ (pc = "done" /\ ~DeletionSent)
                => (result.kind = "raise" /\ PageReads # {} /\ Last(sent).api = "channel_video_series")

C17_Witness ==
    /\ DeletionSent
    /\ pc = "done"
    /\ result.kind = "return"
    /\ FetchedTotal = 0
    /\ Len(sent) = 3
    /\ PageReads = {}
    /\ Last(sent).payload.aids = <<>>

\* C18: the second fetch of get_channel_list asks for a page size of at
\* least 1: when the probe reports a total of 0 the second fetch is still
\* issued, with page size 1.
C18_SecondFetchPageSizePositive ==
    op \in ChannelListOps
        => /\ \A i \in 1..Len(sent) : sent[i].payload.page_size >= 1
           /\ (ProbeReported /\ ProbeTotal = 0)
                => /\ Len(sent) = 2
                   /\ sent[2].api = "channel_list"
                   /\ sent[2].payload.page_size = 1
                   /\ sent[2].payload.page_num = 1
                   /\ sent[2].payload.mid = args.uid

C18_Witness ==
    /\ op = "get_channels"
    /\ ProbeReported
    /\ ProbeTotal = 0
    /\ pc = "fetch"
    /\ Len(sent) = 2
    /\ sent[2].payload.page_size = 1

\* the slot of the User object, None when there is no object
Slot == IF user = NoneValue THEN NoneValue ELSE user.self_info

\* one step of the program, as C12 states it: the slot is empty at construction; once
\* it holds a value it keeps that value (never emptied, never overwritten);
\* a lookup that finds it filled returns the cached value and issues no
\* request; a fetch that fails leaves the slot as it was.
C12_SlotStep ==
    /\ (user = NoneValue /\ user' # NoneValue) => user'.self_info = NoneValue
    /\ (Slot # NoneValue /\ user' # NoneValue) => user'.self_info = Slot
    /\ \A t \in Tasks :
          /\ (lookups[t].pc = "idle" /\ lookups'[t].pc # "idle" /\ Slot # NoneValue)
                => lookups'[t] = Lookup("done", Slot, <<>>, <<>>, Return(Slot))
          /\ (lookups[t].pc = "fetch" /\ lookups'[t].pc = "done"
                  /\ lookups'[t].result.kind = "raise")
                => user' = user

\* C12: every step of the program keeps the self-info slot as the claim says:
\* empty at construction, filled once, never overwritten, served from the
\* cache without a request once filled, left alone by a failed fetch.
C12_CachePopulatedOnce == [][C12_SlotStep]_vars

====
